---- MODULE Spec2Model ----
(***************************************************************************)
(* Model of the schema-migration runner of store/sqlstore/upgrade.go:      *)
(* Container.getVersion, Container.setVersion, Container.Upgrade and the   *)
(* seven migration functions upgradeV1..upgradeV7, run against a           *)
(* transactional SQL store in one of three dialects.                       *)
(*                                                                         *)
(* The store is a record: the version table, the set of data tables, the   *)
(* shape of whatsmeow_device's later columns, the rows of whatsmeow_device *)
(* and whatsmeow_identity_keys (the only rows a migration reads), and the  *)
(* rows of the other tables by the jid they belong to (which the foreign   *)
(* keys carry along).  Strings that the SQL takes apart (jids, their_id)   *)
(* are sequences of one-character strings.                                 *)
(*                                                                         *)
(* Engine behaviour the SQL text relies on is modelled as the engines      *)
(* document it:                                                            *)
(*   - MySQL: CREATE TABLE and ALTER TABLE end the running transaction     *)
(*     with an implicit commit and are not undone by ROLLBACK; statements  *)
(*     that follow run in autocommit mode.                                 *)
(*   - SQLite has no information_schema catalog: the column probe of       *)
(*     upgradeV2/upgradeV6 fails there with "no such table".               *)
(*   - SQLite substr(X, 0, Z) yields the first Z-1 characters.             *)
(*   - an UPDATE that would store NULL in a NOT NULL column, an ALTER that *)
(*     sets NOT NULL over NULL rows, a CREATE of an existing table and an  *)
(*     ADD of an existing column fail.                                     *)
(***************************************************************************)
EXTENDS Integers, Sequences, FiniteSets, TLC

\* Number of Upgrade invocations explored.
MaxRuns == 2
\* Number of injected environment failures (I/O errors, crashes) explored.
MaxFaults == 1
\* Number of operations sent to the store outside Upgrade.
MaxCalls == 2

Dialects == {"mysql", "postgres", "sqlite"}

NULL == "NULL"

----------------------------------------------------------------------------
(* SQL string functions, computed as the engines compute them.             *)

Dot == "."

\* Position of the first occurrence of character c in s, 0 if none
\* (SQLite instr, 1-based).
RECURSIVE InstrFrom(_, _, _)
InstrFrom(s, c, i) ==
    IF i > Len(s) THEN 0
    ELSE IF s[i] = c THEN i
    ELSE InstrFrom(s, c, i + 1)

instr(s, c) == InstrFrom(s, c, 1)

\* A mutant of split_part: splits nothing off.
split_part_whole(s, c) == s

\* PostgreSQL split_part(s, c, 1): the text before the first c, the whole
\* text when c does not occur.
split_part(s, c) ==
    IF instr(s, c) = 0 THEN s ELSE SubSeq(s, 1, instr(s, c) - 1)

\* MySQL SUBSTRING_INDEX(s, c, 1): everything before the first c, the whole
\* string when c does not occur.
SUBSTRING_INDEX(s, c) ==
    IF instr(s, c) = 0 THEN s ELSE SubSeq(s, 1, instr(s, c) - 1)

\* SQLite substr(s, 0, z): position 0 lies before the first character, so the
\* result is the first z-1 characters (empty for z <= 1).
substr0(s, z) ==
    IF z <= 1 THEN <<>> ELSE SubSeq(s, 1, IF z - 1 > Len(s) THEN Len(s) ELSE z - 1)

\* REPLACE(s, '.0', ''): every non-overlapping occurrence, left to right.
RECURSIVE REPLACE(_)
REPLACE(s) ==
    IF Len(s) = 0 THEN <<>>
    ELSE IF Len(s) >= 2 /\ s[1] = Dot /\ s[2] = "0"
         THEN REPLACE(SubSeq(s, 3, Len(s)))
         ELSE <<s[1]>> \o REPLACE(SubSeq(s, 2, Len(s)))

ColonZero == <<":", "0">>

\* The their_id the back-fill of step 2 looks up for a device jid.
FillKey(d, jid) ==
    CASE d = "mysql"    -> SUBSTRING_INDEX(jid, Dot) \o ColonZero
      [] d = "postgres" -> split_part(jid, Dot) \o ColonZero
      [] OTHER          -> substr0(jid, instr(jid, Dot)) \o ColonZero

----------------------------------------------------------------------------
(* Integers of SQL width.  The checker's integers are 32 bits wide, the    *)
(* BIGINT values and literals of the schema are not: a number is held as   *)
(* hi * 65536 + lo with 0 <= lo < 65536.                                   *)

Limb == 65536

Num(hi, lo) == [hi |-> hi, lo |-> lo]

Zero == Num(0, 0)

Less(a, b) == a.hi < b.hi \/ (a.hi = b.hi /\ a.lo < b.lo)

\* 10 * x + digit
TimesTenPlus(x, digit) ==
    LET low == 10 * x.lo + digit
    IN  Num(10 * x.hi + low \div Limb, low % Limb)

\* The value of a decimal literal, given as its digits.
RECURSIVE Lit(_)
Lit(digits) ==
    IF digits = <<>> THEN Zero
    ELSE TimesTenPlus(Lit(SubSeq(digits, 1, Len(digits) - 1)), digits[Len(digits)])

\* A mutant of UpperLimit: every column is held below 16777216.
UpperLimit_small(col) == Lit(<<1, 6, 7, 7, 7, 2, 1, 6>>)

\* The literal x is compared with in CHECK (x >= 0 AND x < literal); the
\* text is the same in the mysql branch and in the other.
UpperLimit(col) ==
    CASE col = "registration_id"   -> Lit(<<4, 2, 9, 4, 9, 6, 7, 2, 9, 6>>)
      [] col = "signed_pre_key_id" -> Lit(<<1, 6, 7, 7, 7, 2, 1, 6>>)
      [] col = "key_id"            -> Lit(<<1, 6, 7, 7, 7, 2, 1, 6>>)

\* CHECK (x >= 0 AND x < literal) on a value of column col.
CheckNumber(d, col, x) == ~Less(x, Zero) /\ Less(x, UpperLimit(col))

----------------------------------------------------------------------------
(* The store.                                                              *)

DeviceTable == "whatsmeow_device"

\* The tables upgradeV1 creates after whatsmeow_device, in order, each with
\* the table its foreign key references.
FirstGenTables ==
    << [t |-> "whatsmeow_identity_keys",            parent |-> DeviceTable],
       [t |-> "whatsmeow_pre_keys",                 parent |-> DeviceTable],
       [t |-> "whatsmeow_sessions",                 parent |-> DeviceTable],
       [t |-> "whatsmeow_sender_keys",              parent |-> DeviceTable],
       [t |-> "whatsmeow_app_state_sync_keys",      parent |-> DeviceTable],
       [t |-> "whatsmeow_app_state_version",        parent |-> DeviceTable],
       [t |-> "whatsmeow_app_state_mutation_macs",  parent |-> "whatsmeow_app_state_version"],
       [t |-> "whatsmeow_contacts",                 parent |-> DeviceTable],
       [t |-> "whatsmeow_chat_settings",            parent |-> DeviceTable] >>

\* A mutant of LaterTables: whatsmeow_message_secrets declares no foreign key.
LaterTables_unowned ==
    << [t |-> "whatsmeow_message_secrets", parent |-> ""],
       [t |-> "whatsmeow_privacy_tokens",  parent |-> ""] >>

\* The tables upgradeV3 and upgradeV4 create: whatsmeow_privacy_tokens
\* declares no foreign key.
LaterTables ==
    << [t |-> "whatsmeow_message_secrets", parent |-> DeviceTable],
       [t |-> "whatsmeow_privacy_tokens",  parent |-> ""] >>

\* The table whose rows the rows of table t reference (ON DELETE CASCADE ON
\* UPDATE CASCADE), "" when t declares no foreign key.
References(t) ==
    LET decl == FirstGenTables \o LaterTables
        at == {i \in 1..Len(decl) : decl[i].t = t}
    IN  IF at = {} THEN "" ELSE decl[CHOOSE i \in at : TRUE].parent

\* A change of a whatsmeow_device key cascades to the rows of table t.
RECURSIVE Cascades(_)
Cascades(t) ==
    LET parent == References(t)
    IN  parent # "" /\ (parent = DeviceTable \/ Cascades(parent))

SigKeyCol == "adv_account_sig_key"
FbUuidCol == "facebook_uuid"
LidCol    == "lid"

EmptyStore ==
    [ vtable  |-> FALSE,      \* whatsmeow_version exists
      vrows   |-> <<>>,       \* its rows
      tables  |-> {},         \* data tables that exist
      sigkey  |-> "absent",   \* adv_account_sig_key: absent, null(able), notnull
      fbuuid  |-> FALSE,      \* facebook_uuid column present
      lid     |-> FALSE,      \* lid column present
      devices |-> {},         \* rows of whatsmeow_device: [jid, key]
      idkeys  |-> {},         \* rows of whatsmeow_identity_keys
      owned   |-> {} ]        \* rows of the other tables: [t, owner], owner
                              \* being the row's jid / our_jid

\* The version a reader finds in the version table.
StoredVersion(s) == IF s.vrows = <<>> THEN 0 ELSE s.vrows[1]

\* Everything but the version table.
Content(s) == [s EXCEPT !.vtable = TRUE, !.vrows = <<>>]

ColumnPresent(s, col) ==
    CASE col = SigKeyCol -> s.sigkey # "absent"
      [] col = FbUuidCol -> s.fbuuid
      [] OTHER           -> s.lid

----------------------------------------------------------------------------
(* The SQL statements of the migration functions, as store transformers.   *)
(* Each yields [ok, s]: whether the statement succeeded and the store      *)
(* after it (s unchanged when it failed).                                  *)

Fail(s) == [ok |-> FALSE, s |-> s]
Done(s) == [ok |-> TRUE, s |-> s]

\* CREATE TABLE whatsmeow_device of upgradeV1: both dialect branches declare
\* adv_account_sig_key NOT NULL and facebook_uuid.
CreateDeviceTable(s) ==
    IF DeviceTable \in s.tables THEN Fail(s)
    ELSE Done([s EXCEPT !.tables = @ \cup {DeviceTable},
                        !.sigkey = "notnull",
                        !.fbuuid = TRUE])

\* CREATE TABLE t (... FOREIGN KEY ... REFERENCES parent); parent "" for none.
CreateTable(s, t, parent) ==
    IF t \in s.tables \/ (parent # "" /\ parent \notin s.tables) THEN Fail(s)
    ELSE Done([s EXCEPT !.tables = @ \cup {t}])

\* INSERT INTO whatsmeow_device of a row whose adv_account_sig_key is key:
\* a column declared NOT NULL rejects NULL.
InsertDeviceOk(s, key) ==
    /\ DeviceTable \in s.tables
    /\ s.sigkey # "absent"
    /\ s.sigkey = "notnull" => key # NULL

\* SELECT COUNT(*) FROM information_schema.columns WHERE table_name =
\* 'whatsmeow_device' AND column_name = col.
ColumnCount(d, s, col) ==
    IF DeviceTable \in s.tables /\ ColumnPresent(s, col) THEN 1 ELSE 0

\* The probe fails where the catalog does not exist.
ProbeOk(d) == d # "sqlite"

\* A mutant of AddColumn: the table is rebuilt empty with the new column.
AddColumn_emptied(s, col) ==
    IF DeviceTable \notin s.tables \/ ColumnPresent(s, col) THEN Fail(s)
    ELSE Done([s EXCEPT !.lid = TRUE, !.fbuuid = TRUE, !.devices = {}])

\* ALTER TABLE whatsmeow_device ADD COLUMN col (nullable).
AddColumn(s, col) ==
    IF DeviceTable \notin s.tables \/ ColumnPresent(s, col) THEN Fail(s)
    ELSE CASE col = SigKeyCol -> Done([s EXCEPT !.sigkey = "null"])
           [] col = FbUuidCol -> Done([s EXCEPT !.fbuuid = TRUE])
           [] OTHER           -> Done([s EXCEPT !.lid = TRUE])

\* (SELECT identity FROM whatsmeow_identity_keys WHERE our_jid = jid AND
\*  their_id = <legacy key of jid>): NULL when no row matches.
LookupIdentity(d, s, jid) ==
    LET m == {r \in s.idkeys : r.our_jid = jid /\ r.their_id = FillKey(d, jid)}
    IN  IF m = {} THEN NULL ELSE (CHOOSE r \in m : TRUE).identity

\* UPDATE whatsmeow_device SET adv_account_sig_key = (SELECT ...).
UpdateSigKey(d, s) ==
    LET new == {[jid |-> dv.jid, key |-> LookupIdentity(d, s, dv.jid)] : dv \in s.devices}
    IN  IF \/ DeviceTable \notin s.tables
           \/ s.sigkey = "absent"
           \/ (s.sigkey = "notnull" /\ \E dv \in new : dv.key = NULL)
        THEN Fail(s)
        ELSE Done([s EXCEPT !.devices = new])

\* A mutant of DeleteUnfilled: the rows of the deleted devices stay.
DeleteUnfilled_uncascaded(s) ==
    IF DeviceTable \notin s.tables \/ s.sigkey = "absent" THEN Fail(s)
    ELSE Done([s EXCEPT !.devices = {dv \in @ : dv.key # NULL}])

\* DELETE FROM whatsmeow_device WHERE adv_account_sig_key IS NULL, with
\* ON DELETE CASCADE to whatsmeow_identity_keys.
DeleteUnfilled(s) ==
    LET kept == {dv \in s.devices : dv.key # NULL}
    IN  IF DeviceTable \notin s.tables \/ s.sigkey = "absent" THEN Fail(s)
        ELSE Done([s EXCEPT !.devices = kept,
                            !.idkeys = {r \in @ : \E dv \in kept : dv.jid = r.our_jid},
                            !.owned = {r \in @ : Cascades(r.t) =>
                                                    \E dv \in kept : dv.jid = r.owner}])

\* A mutant of SetNotNull: the column stays nullable.
SetNotNull_kept(s) == Done(s)

\* ALTER TABLE ... adv_account_sig_key ... NOT NULL.
SetNotNull(s) ==
    IF \/ DeviceTable \notin s.tables
       \/ s.sigkey = "absent"
       \/ \E dv \in s.devices : dv.key = NULL
    THEN Fail(s)
    ELSE Done([s EXCEPT !.sigkey = "notnull"])

\* Three statements sent as one Exec: the first that fails ends it.
FillSigKeyPostgres(d, s) ==
    LET r1 == UpdateSigKey(d, s)
        r2 == IF r1.ok THEN DeleteUnfilled(r1.s) ELSE r1
        r3 == IF r2.ok THEN SetNotNull(r2.s) ELSE r2
    IN  IF r3.ok THEN r3 ELSE Fail(s)

FillSigKeySQLite(d, s) == UpdateSigKey(d, s)

\* UPDATE whatsmeow_device SET jid = REPLACE(jid, '.0', ''), with ON UPDATE
\* CASCADE to whatsmeow_identity_keys; fails on a primary-key collision.
StripDeviceSuffix(s) ==
    LET clash == \E x, y \in s.devices :
                    /\ x # y
                    /\ REPLACE(x.jid) \in {REPLACE(y.jid), y.jid}
    IN  IF DeviceTable \notin s.tables \/ clash THEN Fail(s)
        ELSE Done([s EXCEPT
                   !.devices = {[dv EXCEPT !.jid = REPLACE(@)] : dv \in s.devices},
                   !.idkeys  = {[r EXCEPT !.our_jid = REPLACE(@)] : r \in s.idkeys},
                   !.owned   = {IF Cascades(r.t) THEN [r EXCEPT !.owner = REPLACE(@)] ELSE r :
                                   r \in s.owned}])

\* DELETE FROM whatsmeow_device WHERE jid = j, with ON DELETE CASCADE to the
\* rows that reference the device.
DeleteDevice(s, j) ==
    IF DeviceTable \notin s.tables THEN Fail(s)
    ELSE Done([s EXCEPT !.devices = {dv \in @ : dv.jid # j},
                        !.idkeys = {r \in @ : Cascades("whatsmeow_identity_keys") => r.our_jid # j},
                        !.owned = {r \in @ : Cascades(r.t) => r.owner # j}])

----------------------------------------------------------------------------
(* The migration functions: each is the sequence of statements it sends.   *)
(* guard "count0" marks a statement inside `if count == 0 { ... }`.        *)

Stmt(op, arg)       == [op |-> op, arg |-> arg, parent |-> "", guard |-> "always"]
StmtIfAbsent(op, arg) == [op |-> op, arg |-> arg, parent |-> "", guard |-> "count0"]
StmtCreate(t, parent) == [op |-> "create", arg |-> t, parent |-> parent, guard |-> "always"]

upgradeV1(d) ==
    <<Stmt("createDevice", DeviceTable)>> \o
    [i \in 1..Len(FirstGenTables) |->
        StmtCreate(FirstGenTables[i].t, FirstGenTables[i].parent)]

upgradeV2(d) ==
    <<Stmt("probe", SigKeyCol), StmtIfAbsent("addColumn", SigKeyCol)>> \o
    CASE d = "mysql"    -> <<Stmt("updateSigKey", ""), Stmt("deleteUnfilled", ""),
                             Stmt("setNotNull", "")>>
      [] d = "postgres" -> <<Stmt("fillSigKeyPostgres", "")>>
      [] OTHER          -> <<Stmt("fillSigKeySQLite", "")>>

upgradeV3(d) == <<StmtCreate(LaterTables[1].t, LaterTables[1].parent)>>

upgradeV4(d) == <<StmtCreate(LaterTables[2].t, LaterTables[2].parent)>>

upgradeV5(d) == <<Stmt("stripDeviceSuffix", "")>>

\* A mutant of upgradeV6: the column is added whatever the probe counted.
upgradeV6_unguarded(d) == <<Stmt("probe", FbUuidCol), Stmt("addColumn", FbUuidCol)>>

upgradeV6(d) == <<Stmt("probe", FbUuidCol), StmtIfAbsent("addColumn", FbUuidCol)>>

upgradeV7(d) == <<Stmt("addColumn", LidCol)>>

Upgrades(d) ==
    <<upgradeV1(d), upgradeV2(d), upgradeV3(d), upgradeV4(d),
      upgradeV5(d), upgradeV6(d), upgradeV7(d)>>

\* len(Upgrades)
NumUpgrades == Len(Upgrades("postgres"))

\* tx.Exec / tx.QueryRow of one statement: [ok, s, count], count being what
\* a probe scanned (unchanged by other statements).
Exec(d, st, s, count) ==
    LET r == CASE st.op = "createDevice"       -> CreateDeviceTable(s)
               [] st.op = "create"             -> CreateTable(s, st.arg, st.parent)
               [] st.op = "probe"              -> IF ProbeOk(d) THEN Done(s) ELSE Fail(s)
               [] st.op = "addColumn"          -> AddColumn(s, st.arg)
               [] st.op = "updateSigKey"       -> UpdateSigKey(d, s)
               [] st.op = "deleteUnfilled"     -> DeleteUnfilled(s)
               [] st.op = "setNotNull"         -> SetNotNull(s)
               [] st.op = "fillSigKeyPostgres" -> FillSigKeyPostgres(d, s)
               [] st.op = "fillSigKeySQLite"   -> FillSigKeySQLite(d, s)
               [] OTHER                        -> StripDeviceSuffix(s)
    IN  [ok |-> r.ok, s |-> r.s,
         count |-> IF st.op = "probe" /\ r.ok THEN ColumnCount(d, s, st.arg) ELSE count]

\* MySQL commits implicitly around data-definition statements.
ImplicitCommit(d, st) ==
    d = "mysql" /\ st.op \in {"createDevice", "create", "addColumn", "setNotNull"}

\* The index of the statement the function sends after statement i, given
\* count; 0 when the function returns nil.
RECURSIVE NextStmt(_, _, _)
NextStmt(prog, i, count) ==
    IF i + 1 > Len(prog) THEN 0
    ELSE IF prog[i + 1].guard = "always" \/ count = 0 THEN i + 1
    ELSE NextStmt(prog, i + 1, count)

\* What the engine reports when statement st fails on store s.
ErrorOf(d, st, s) ==
    CASE st.op = "probe" -> "no such table"
      [] st.op \in {"createDevice", "create"} ->
            IF st.arg \in s.tables THEN "table exists" ELSE "no such table"
      [] DeviceTable \notin s.tables -> "no such table"
      [] st.op = "addColumn" -> "duplicate column"
      [] st.op = "stripDeviceSuffix" -> "duplicate key"
      [] s.sigkey = "absent" -> "no such column"
      [] OTHER -> "null value"

\* A migration function run to its end without interference: [ok, s, error],
\* error being that of its first failing statement, "" when it returns nil.
RECURSIVE RunFrom(_, _, _, _, _)
RunFrom(d, prog, i, s, count) ==
    IF i = 0 THEN [ok |-> TRUE, s |-> s, error |-> ""]
    ELSE LET r == Exec(d, prog[i], s, count)
         IN  IF ~r.ok THEN [ok |-> FALSE, s |-> s, error |-> ErrorOf(d, prog[i], s)]
             ELSE RunFrom(d, prog, NextStmt(prog, i, r.count), r.s, r.count)

RunStep(d, n, s) == RunFrom(d, Upgrades(d)[n], 1, s, 0)

\* A migration function run to its end inside a transaction the runner began
\* on store s, followed by tx.Rollback() when it fails: [ok, s, error], s
\* being the store once the function has returned nil, and what is committed
\* after the rollback when it failed.  kept is what a rollback returns to;
\* open, that the transaction is still in progress at the server.
RECURSIVE RunTx(_, _, _, _, _, _, _)
RunTx(d, prog, i, s, kept, open, count) ==
    IF i = 0 THEN [ok |-> TRUE, s |-> s, error |-> ""]
    ELSE CHOOSE out \in
            { IF ~r.ok THEN [ok |-> FALSE, s |-> kept, error |-> ErrorOf(d, prog[i], s)]
              ELSE RunTx(d, prog, NextStmt(prog, i, r.count), r.s,
                         IF ImplicitCommit(d, prog[i]) \/ ~open THEN r.s ELSE kept,
                         open /\ ~ImplicitCommit(d, prog[i]), r.count) :
                r \in {Exec(d, prog[i], s, count)} } : TRUE

----------------------------------------------------------------------------
(* Stores the runner can be started on.                                    *)

JidA == <<"a", ".", "0">>     \* legacy form user.device
JidB == <<"b">>               \* no device part
JidF == <<"a">>               \* what JidA becomes without its '.0'

SigKey0 == "K0"               \* a key the client stored itself

\* Rows whatsmeow_identity_keys may hold.
IdentityRows ==
    { [our_jid |-> JidA, their_id |-> <<"a", ":", "0">>,           identity |-> "K1"],
      [our_jid |-> JidA, their_id |-> <<"a", ".", "0", ":", "0">>, identity |-> "K2"],
      [our_jid |-> JidB, their_id |-> <<"b", ":", "0">>,           identity |-> "K1"] }

\* Device jids and identity rows of a store at version v: every identity row
\* belongs to a device (foreign key); jids are stripped from version 5 on.
InitData(v) ==
    LET all == { [devs |-> ds, ids |-> rs] :
                    ds \in SUBSET {JidA, JidB}, rs \in SUBSET IdentityRows }
        fk(x) == \A r \in x.ids : r.our_jid \in x.devs
        full(x) == x.ids = {r \in IdentityRows : r.our_jid \in x.devs}
    IN  CASE v = 0 -> { [devs |-> {}, ids |-> {}] }
          [] v = 1 -> { x \in all : fk(x) }
          [] v \in 2..4 ->
                { x \in all : fk(x) /\ full(x) /\ x.devs \in {{}, {JidA, JidB}} }
                \cup (IF v = 4
                      THEN { [devs |-> {JidA, JidB, JidF}, ids |-> IdentityRows] }
                      ELSE {})
          [] OTHER -> { x \in all : fk(x) /\ full(x) /\ x.devs \in {{}, {JidB}} }

\* A store at version v.  legacy: created by a release whose step 1 declared
\* neither adv_account_sig_key nor facebook_uuid (the shape the probes of
\* upgradeV2 and upgradeV6 look for).  vt: the version table exists.
InitStore(d, v, legacy, vt, data) ==
    LET sk == IF v = 0 \/ (legacy /\ v = 1) THEN "absent"
              ELSE IF legacy /\ d = "sqlite" THEN "null"
              ELSE "notnull"
    IN  [ vtable  |-> vt,
          vrows   |-> IF v = 0 THEN <<>> ELSE <<v>>,
          tables  |-> (IF v >= 1
                       THEN {DeviceTable} \cup {FirstGenTables[i].t : i \in 1..Len(FirstGenTables)}
                       ELSE {})
                      \cup (IF v >= 3 THEN {"whatsmeow_message_secrets"} ELSE {})
                      \cup (IF v >= 4 THEN {"whatsmeow_privacy_tokens"} ELSE {}),
          sigkey  |-> sk,
          fbuuid  |-> v >= 1 /\ (~legacy \/ v >= 6),
          lid     |-> v >= 7,
          devices |-> {[jid |-> j, key |-> IF sk = "absent" THEN NULL ELSE SigKey0] :
                          j \in data.devs},
          idkeys  |-> data.ids,
          owned   |-> {} ]

PrivacyTable == LaterTables[2].t

\* The tables other than whatsmeow_identity_keys whose rows carry the jid of
\* the device they belong to.
DeviceKeyedTables ==
    {FirstGenTables[i].t : i \in 2..Len(FirstGenTables)} \cup {LaterTables[1].t}

\* Rows of the latest schema: one row per device-keyed table for each device
\* in own, and one privacy token for each our_jid in tokens.
OwnedRows(own, tokens) ==
    {[t |-> t, owner |-> j] : t \in DeviceKeyedTables, j \in own}
        \cup {[t |-> PrivacyTable, owner |-> j] : j \in tokens}

\* The rows the clients of store s have written for the devices in devs: a
\* row in every device-keyed table of s and a privacy token each.
ClientRows(s, devs) == {r \in OwnedRows(devs, devs) : r.t \in s.tables}

----------------------------------------------------------------------------
(* State.                                                                  *)

VARIABLES
    dialect,      \* c.dialect
    foreignKeys,  \* SQLite connection setting read by PRAGMA foreign_keys
    db,           \* the committed store
    tx,           \* the store as the open transaction sees it
    srvTx,        \* a transaction is in progress at the server
    openTx,       \* transactions Upgrade began and neither committed nor rolled back
    pc,           \* position of the runner: idle, loop, migrate, setVersion, commit
    version,      \* Upgrade's local variable
    stmt,         \* index of the next statement of the migration function
    count,        \* the migration function's local variable
    result,       \* how the last invocation ended: none, ok, err, crash
    exit,         \* where it returned
    err,          \* the error value it returned
    failedStep,   \* the step whose transaction it was in when it returned an
                  \* error (0: none)
    \* history variables
    prevResult,   \* result of the invocation before the last
    runs,         \* invocations so far
    faults,       \* injected failures so far
    faulted,      \* the current invocation met an injected failure
    startFault,   \* the failure injected into its first part
    gv,           \* what its getVersion call returned
    store0,       \* the store at the start
    applied,      \* versions whose version write became durable, in order
    firstStep,    \* first step the current invocation ran (0: none)
    dbAtCall,     \* committed store when the current invocation began
    dbAtBegin,    \* committed store when the current step's transaction began
    call,         \* the last operation sent to the store outside Upgrade
    wire,         \* a payload on its way through Marshal and Unmarshal
    upgraders     \* the invocations of Upgrade that share the store, each with
                  \* its position and its local variable version

conn == <<db, tx, srvTx, openTx>>
locals == <<pc, version, stmt, count, result, exit, err, failedStep>>
env == <<dialect, foreignKeys, store0, call, wire, upgraders>>
hist == <<prevResult, runs, faults, faulted, startFault, gv, applied, firstStep,
          dbAtCall, dbAtBegin>>
vars == <<dialect, foreignKeys, db, tx, srvTx, openTx, pc, version, stmt, count,
          result, exit, err, failedStep, prevResult, runs, faults, faulted, startFault, gv, store0,
          applied, firstStep, dbAtCall, dbAtBegin, call, wire, upgraders>>

NoGv == [called |-> FALSE, version |-> 0, err |-> FALSE]

\* Error values: the underlying error and the messages wrapped around it,
\* each with the version it names (0: none).
NoError == [cause |-> "", context |-> <<>>]

\* An error of the driver or the engine, passed on as it is (return err).
Err(cause) == [cause |-> cause, context |-> <<>>]

\* fmt.Errorf("msg")
NewError(msg) == [cause |-> "", context |-> <<[text |-> msg, version |-> 0]>>]

\* fmt.Errorf("msg: %w", e)
Wrap(msg, e) == [cause |-> e.cause, context |-> <<[text |-> msg, version |-> 0]>> \o e.context]

\* No payload.
NoWire == [origin |-> "none"]

\* No operation yet.
NoCall == [op |-> "none", arg |-> 0, ok |-> TRUE, error |-> "", calls |-> 0,
           prev |-> [op |-> "none", arg |-> 0, ok |-> TRUE]]

\* The goroutines (or processes) that call Upgrade on the one store.
Upgraders == {1, 2}

\* None of them has called Upgrade yet.
NoUpgraders ==
    [p \in Upgraders |->
        [pc |-> "idle", version |-> 0, result |-> "none", error |-> "", overlap |-> FALSE]]

\* Nothing has run yet on the committed store db.
InitRunner ==
    /\ upgraders = NoUpgraders
    /\ tx = db
    /\ srvTx = FALSE
    /\ openTx = 0
    /\ pc = "idle"
    /\ version = 0
    /\ stmt = 0
    /\ count = 0
    /\ result = "none"
    /\ exit = "none"
    /\ err = NoError
    /\ failedStep = 0
    /\ prevResult = "none"
    /\ runs = 0
    /\ faults = 0
    /\ faulted = FALSE
    /\ startFault = "none"
    /\ gv = NoGv
    /\ store0 = db
    /\ applied = [i \in 1..StoredVersion(db) |-> i]
    /\ firstStep = 0
    /\ dbAtCall = db
    /\ dbAtBegin = db

Init ==
    /\ dialect \in Dialects
    /\ foreignKeys \in BOOLEAN
    /\ dialect # "sqlite" => foreignKeys
    /\ \E v \in 0..NumUpgrades, legacy \in BOOLEAN, vt \in BOOLEAN :
         /\ v = 0 => ~legacy
         /\ v >= 1 => vt
         /\ (dialect = "sqlite" /\ v >= 2) => legacy
         /\ \E data \in InitData(v), used \in BOOLEAN :
              \E s \in {InitStore(dialect, v, legacy, vt, data)} :
                  db = [s EXCEPT !.owned = IF used THEN ClientRows(s, data.devs) ELSE {}]
    /\ InitRunner
    /\ call = NoCall
    /\ wire = NoWire

----------------------------------------------------------------------------
(* Container.getVersion, Container.setVersion and the pieces of Upgrade.   *)

\* A mutant of ForeignKeysCheck: the check is skipped.
ForeignKeysCheck_skipped(d, readOk, enabled) == TRUE

\* The dialect precondition of Upgrade: on sqlite, PRAGMA foreign_keys must
\* be readable and on.
ForeignKeysCheck(d, readOk, enabled) ==
    d = "sqlite" => (readOk /\ enabled)

\* CREATE TABLE IF NOT EXISTS whatsmeow_version (version INT)
CreateVersionTable(s) == [s EXCEPT !.vtable = TRUE]

\* A mutant of ScanVersion: the row is never read.
ScanVersion_zero(rows, scanOk) == 0

\* version := 0; _ = row.Scan(&version): the first row's value, and 0 when
\* there is no row or the scan failed.
ScanVersion(rows, scanOk) ==
    IF scanOk /\ rows # <<>> THEN rows[1] ELSE 0

\* getVersion: [s, version, err].
getVersion(s, createOk, scanOk) ==
    IF ~createOk
    THEN [s |-> s, version |-> -1, err |-> TRUE]
    ELSE [s |-> CreateVersionTable(s),
          version |-> ScanVersion(s.vrows, scanOk),
          err |-> FALSE]

\* A mutant of DeleteVersions: the old rows stay.
DeleteVersions_none(rows) == rows

\* DELETE FROM whatsmeow_version
DeleteVersions(rows) == <<>>

\* INSERT INTO whatsmeow_version (version) VALUES (v)
InsertVersion(rows, v) == Append(rows, v)

\* The version Upgrade stores after step Upgrades[version]: version+1.
TargetVersion(v) == v + 1

\* A mutant of LoopCond: the last step is left out.
LoopCond_short(v) == v < NumUpgrades - 1

\* for ; version < len(Upgrades); version++
LoopCond(v) == v < NumUpgrades

----------------------------------------------------------------------------
(* Actions.                                                                *)

\* The store the runner's statements see.
Working == IF srvTx THEN tx ELSE db

CanFault == faults < MaxFaults

\* The committed store becomes s (a commit, an implicit commit or an
\* autocommitted statement); a changed version row is logged.
Commits(s) ==
    /\ db' = s
    /\ applied' = IF s.vrows # db.vrows /\ s.vrows # <<>>
                  THEN Append(applied, s.vrows[Len(s.vrows)])
                  ELSE applied

\* Upgrade returns e (res: ok, err or crash) from the place where.
Return(res, where, e) ==
    /\ pc' = "idle"
    /\ result' = res
    /\ exit' = where
    /\ err' = e
    /\ failedStep' = IF res = "err" /\ where \in {"migrate", "setVersion", "commit"}
                     THEN version + 1 ELSE 0
    /\ version' = 0
    /\ stmt' = 0
    /\ count' = 0

\* The transaction ends without its pending work.
Discard ==
    /\ tx' = db'
    /\ srvTx' = FALSE

Injected(f) ==
    /\ faults' = IF f THEN faults + 1 ELSE faults
    /\ faulted' = (faulted \/ f)

\* Upgrade() is called: the precondition check and getVersion.
Start ==
    /\ pc = "idle"
    /\ runs < MaxRuns
    /\ \E f \in {"none", "pragma", "create", "scan"} :
         /\ f # "none" => CanFault
         /\ f = "pragma" => dialect = "sqlite"
         /\ LET g == getVersion(db, f # "create", f # "scan")
            IN  /\ runs' = runs + 1
                /\ faults' = IF f # "none" THEN faults + 1 ELSE faults
                /\ faulted' = (f # "none")
                /\ startFault' = f
                /\ prevResult' = result
                /\ dbAtCall' = db
                /\ dbAtBegin' = db
                /\ firstStep' = 0
                /\ UNCHANGED <<env, srvTx, openTx, stmt, count>>
                /\ IF ~ForeignKeysCheck(dialect, f # "pragma", foreignKeys)
                   THEN /\ Return("err", "foreignKeys",
                               IF f = "pragma"
                               THEN Wrap("failed to check if foreign keys are enabled", Err("io"))
                               ELSE NewError("foreign keys are not enabled"))
                        /\ gv' = NoGv
                        /\ UNCHANGED <<db, tx, applied>>
                   ELSE /\ gv' = [called |-> TRUE, version |-> g.version, err |-> g.err]
                        /\ Commits(g.s)
                        /\ tx' = g.s
                        /\ IF g.err
                           THEN Return("err", "getVersion", Err("io"))
                           ELSE /\ pc' = "loop"
                                /\ version' = g.version
                                /\ UNCHANGED <<result, exit, err, failedStep>>

\* The loop condition fails: return nil.
Finish ==
    /\ pc = "loop"
    /\ ~LoopCond(version)
    /\ Return("ok", "end", NoError)
    /\ UNCHANGED <<env, conn, hist>>

\* tx, err = c.db.Begin()
Begin ==
    /\ pc = "loop"
    /\ LoopCond(version)
    /\ \E f \in BOOLEAN :
         /\ f => CanFault
         /\ Injected(f)
         /\ IF f
            THEN /\ Return("err", "begin", Err("io"))
                 /\ UNCHANGED <<conn, firstStep, dbAtBegin>>
            ELSE /\ pc' = "migrate"
                 /\ stmt' = 1
                 /\ count' = 0
                 /\ tx' = db
                 /\ srvTx' = TRUE
                 /\ dbAtBegin' = db
                 /\ firstStep' = IF firstStep = 0 THEN version + 1 ELSE firstStep
                 /\ UNCHANGED <<db, openTx, version, result, exit, err, failedStep>>
    /\ UNCHANGED <<env, prevResult, runs, startFault, gv, applied, dbAtCall>>

\* migrateFunc sends its next statement; on an error Upgrade rolls back and
\* returns.
ExecStmt ==
    /\ pc = "migrate"
    /\ \E f \in BOOLEAN :
         /\ f => CanFault
         /\ Injected(f)
         /\ LET prog == Upgrades(dialect)[version + 1]
                st == prog[stmt]
                r == Exec(dialect, st, Working, count)
                next == NextStmt(prog, stmt, r.count)
            IN  IF f \/ ~r.ok
                THEN /\ Return("err", "migrate",
                            Err(IF f THEN "io" ELSE ErrorOf(dialect, st, Working)))
                     /\ UNCHANGED <<db, applied>>
                     /\ Discard
                ELSE /\ count' = r.count
                     /\ IF next = 0
                        THEN pc' = "setVersion" /\ stmt' = 0
                        ELSE pc' = pc /\ stmt' = next
                     /\ UNCHANGED <<version, result, exit, err, failedStep>>
                     /\ IF ImplicitCommit(dialect, st)
                        THEN Commits(r.s) /\ Discard
                        ELSE IF srvTx
                             THEN tx' = r.s /\ UNCHANGED <<db, applied, srvTx>>
                             ELSE Commits(r.s) /\ Discard
    /\ UNCHANGED <<env, openTx, prevResult, runs, startFault, gv, firstStep,
                   dbAtCall, dbAtBegin>>

\* c.setVersion(tx, version+1): DELETE, then INSERT; on an error Upgrade
\* returns without finishing the transaction.
SetVersion ==
    /\ pc = "setVersion"
    /\ \E o \in {"ok", "delete", "insert"} :
         /\ o # "ok" => CanFault
         /\ Injected(o # "ok")
         /\ LET w1 == [Working EXCEPT !.vrows = DeleteVersions(@)]
                w2 == [w1 EXCEPT !.vrows = InsertVersion(@, TargetVersion(version))]
                w == CASE o = "ok" -> w2 [] o = "insert" -> w1 [] OTHER -> Working
            IN  /\ IF srvTx
                   THEN UNCHANGED <<db, applied>>
                   ELSE Commits(w)
                /\ IF o = "ok"
                   THEN /\ pc' = "commit"
                        /\ tx' = IF srvTx THEN w ELSE db'
                        /\ UNCHANGED <<srvTx, openTx, version, stmt, count,
                                       result, exit, err, failedStep>>
                   ELSE /\ Return("err", "setVersion", Err("io"))
                        /\ openTx' = openTx + 1
                        /\ Discard
    /\ UNCHANGED <<env, prevResult, runs, startFault, gv, firstStep, dbAtCall,
                   dbAtBegin>>

\* tx.Commit()
Commit ==
    /\ pc = "commit"
    /\ \E f \in BOOLEAN :
         /\ f => CanFault
         /\ Injected(f)
         /\ IF f
            THEN /\ Return("err", "commit", Err("io"))
                 /\ UNCHANGED <<db, applied>>
            ELSE /\ Commits(Working)
                 /\ pc' = "loop"
                 /\ version' = version + 1
                 /\ UNCHANGED <<stmt, count, result, exit, err, failedStep>>
         /\ Discard
    /\ UNCHANGED <<env, openTx, prevResult, runs, startFault, gv, firstStep,
                   dbAtCall, dbAtBegin>>

\* The process dies inside Upgrade: the server drops its connections and
\* with them every transaction still in progress.
Crash ==
    /\ pc # "idle"
    /\ CanFault
    /\ Injected(TRUE)
    /\ Return("crash", pc, NoError)
    /\ openTx' = 0
    /\ UNCHANGED <<db, applied>>
    /\ Discard
    /\ UNCHANGED <<env, prevResult, runs, startFault, gv, firstStep, dbAtCall,
                   dbAtBegin>>

Next == Start \/ Finish \/ Begin \/ ExecStmt \/ SetVersion \/ Commit \/ Crash

Spec == Init /\ [][Next]_vars

----------------------------------------------------------------------------
(* Operations sent to a store outside Upgrade: a migration function of the *)
(* exported Upgrades list called by hand.                                  *)

\* The steps called by hand: those that send at most one changing
\* statement, so that the call takes effect as a whole on every dialect.
DirectSteps == {5, 6, 7}

runner == <<tx, srvTx, openTx, pc, version, stmt, count, result, exit, err, failedStep, prevResult,
            runs, faults, faulted, startFault, gv, applied, firstStep, dbAtBegin,
            upgraders>>

JidC == <<"c">>
JidD == <<"d", ".", "0", "5">>          \* '.0' inside, no suffix
JidE == <<"e", ".", "0", ".", "0">>     \* '.0' inside and as suffix

\* Devices and rows of a store at version v that clients have used.
StoreData(v) ==
    IF v < NumUpgrades
    THEN {[devs |-> x.devs, ids |-> x.ids, owned |-> {}] : x \in InitData(v)}
         \cup (IF v = 4
               THEN {[devs |-> ds, ids |-> {}, owned |-> {}] :
                        ds \in SUBSET {JidA, JidB, JidD, JidE}}
               ELSE {})
    ELSE {[devs |-> ds,
           ids |-> {[our_jid |-> j, their_id |-> j \o ColonZero, identity |-> "K1"] : j \in ds},
           owned |-> OwnedRows(own, tokens)] :
             ds \in SUBSET {JidB, JidC}, own \in SUBSET {JidB, JidC},
             tokens \in SUBSET {JidB, JidC}}

\* The connection is one Upgrade accepts (foreign keys enforced).
StoreInit ==
    /\ dialect \in Dialects
    /\ foreignKeys = TRUE
    /\ \E v \in 0..NumUpgrades, legacy \in BOOLEAN :
         /\ v = 0 => ~legacy
         /\ (dialect = "sqlite" /\ v >= 2) => legacy
         /\ \E data \in StoreData(v) :
              /\ \A r \in data.owned : Cascades(r.t) => r.owner \in data.devs
              /\ db = [InitStore(dialect, v, legacy, TRUE, data) EXCEPT !.owned = data.owned]
    /\ InitRunner
    /\ call = NoCall
    /\ wire = NoWire

\* The operation op(arg) has ended with ok and error.
Called(op, arg, ok, error) ==
    /\ call' = [op |-> op, arg |-> arg, ok |-> ok, error |-> error,
                calls |-> call.calls + 1,
                prev |-> [op |-> call.op, arg |-> call.arg, ok |-> call.ok]]
    /\ dbAtCall' = db
    /\ UNCHANGED <<dialect, foreignKeys, store0, wire, runner>>

\* Upgrades[n-1](tx, c) on a transaction of the caller's, committed when the
\* function returns nil and rolled back otherwise.
RunUpgradeFunc ==
    /\ call.calls < MaxCalls
    /\ \E n \in DirectSteps :
         \E r \in {RunStep(dialect, n, db)} :
             /\ db' = r.s
             /\ Called("upgrade", n, r.ok, r.error)

\* A client deletes the device j.
ClientDeleteDevice ==
    /\ call.calls < MaxCalls
    /\ \E j \in {dv.jid : dv \in db.devices} :
         \E r \in {DeleteDevice(db, j)} :
             /\ db' = r.s
             /\ Called("deleteDevice", j, r.ok, "")

StoreNext == RunUpgradeFunc \/ ClientDeleteDevice

StoreSpec == StoreInit /\ [][StoreNext]_vars

----------------------------------------------------------------------------
(* Two invocations of Upgrade on one store, nothing keeping them apart.    *)
(* Each iteration of the loop runs with no statement of the other          *)
(* invocation in between (its transaction executes serially); the          *)
(* invocations meet between getVersion and the iterations.                 *)

single == <<dialect, foreignKeys, store0, call, wire, tx, srvTx, openTx, locals,
            prevResult, runs, faults, faulted, startFault, gv, firstStep,
            dbAtCall, dbAtBegin>>

ConcurrentInit == Init /\ foreignKeys

\* One iteration of the loop of Upgrade on store s with local variable v,
\* nothing else reaching the store meanwhile: Begin, Upgrades[v], setVersion
\* and Commit, or Rollback when the function fails.
RunIteration(d, v, s) ==
    LET r == RunTx(d, Upgrades(d)[v + 1], 1, s, s, TRUE, 0)
    IN  IF ~r.ok THEN r
        ELSE [ok |-> TRUE,
              s |-> [r.s EXCEPT !.vrows = InsertVersion(DeleteVersions(@), v + 1)],
              error |-> ""]

\* Steps from+1 .. to applied in order to s.
RECURSIVE ApplySteps(_, _, _, _)
ApplySteps(d, s, from, to) ==
    IF from >= to THEN Done(s)
    ELSE LET r == RunStep(d, from + 1, s)
         IN  IF r.ok THEN ApplySteps(d, r.s, from + 1, to) ELSE Fail(s)

\* Upgrade() is called by p: the precondition check passes and getVersion
\* reads the version, outside any transaction.
CallUpgrade(p) ==
    /\ upgraders[p].pc = "idle" /\ upgraders[p].result = "none"
    /\ \E g \in {getVersion(db, TRUE, TRUE)} :
         /\ db' = g.s
         /\ upgraders' = [upgraders EXCEPT
                ![p] = [@ EXCEPT !.pc = "loop",
                                 !.version = g.version,
                                 !.overlap = \E q \in Upgraders \ {p} :
                                                upgraders[q].pc # "idle"]]
    /\ UNCHANGED <<applied, single>>

\* p runs one iteration of its loop.
Iterate(p) ==
    /\ upgraders[p].pc = "loop"
    /\ LoopCond(upgraders[p].version)
    /\ \E r \in {RunIteration(dialect, upgraders[p].version, db)} :
         /\ db' = r.s
         /\ IF r.ok
            THEN /\ applied' = Append(applied, TargetVersion(upgraders[p].version))
                 /\ upgraders' = [upgraders EXCEPT ![p].version = @ + 1]
            ELSE /\ applied' = applied
                 /\ upgraders' = [upgraders EXCEPT
                        ![p] = [@ EXCEPT !.pc = "idle", !.result = "err",
                                         !.error = r.error]]
    /\ UNCHANGED single

\* p's loop condition fails: return nil.
ReturnNil(p) ==
    /\ upgraders[p].pc = "loop"
    /\ ~LoopCond(upgraders[p].version)
    /\ upgraders' = [upgraders EXCEPT ![p] = [@ EXCEPT !.pc = "idle", !.result = "ok"]]
    /\ UNCHANGED <<db, applied, single>>

ConcurrentNext == \E p \in Upgraders : CallUpgrade(p) \/ Iterate(p) \/ ReturnNil(p)

ConcurrentSpec == ConcurrentInit /\ [][ConcurrentNext]_vars

----------------------------------------------------------------------------
(* LIDMigrationMapping and LIDMigrationMappingSyncPayload and their wire    *)
(* form.  The generated code declares the fields (number, wire type,       *)
(* label); the bytes are those of the protobuf encoding the runtime writes *)
(* and reads for such declarations, with its default options (required     *)
(* fields are checked by Marshal and by Unmarshal).  A byte is an integer  *)
(* in 0..255, a message a record, a nil pointer Nil.                       *)

Nil == -1

VarintType == 0
BytesType == 2

\* A mutant of MappingFields: latestLid is written under field number 2.
MappingFields_clash ==
    << [num |-> 1, name |-> "pn",          req |-> TRUE],
       [num |-> 2, name |-> "assignedLid", req |-> TRUE],
       [num |-> 2, name |-> "latestLid",   req |-> FALSE] >>

\* A mutant of MappingFields: assignedLid is optional.
MappingFields_optional ==
    << [num |-> 1, name |-> "pn",          req |-> TRUE],
       [num |-> 2, name |-> "assignedLid", req |-> FALSE],
       [num |-> 3, name |-> "latestLid",   req |-> FALSE] >>

\* The fields of LIDMigrationMapping, all varint: protobuf:"varint,1,req,
\* name=pn", "varint,2,req,name=assignedLid", "varint,3,opt,name=latestLid".
MappingFields ==
    << [num |-> 1, name |-> "pn",          req |-> TRUE],
       [num |-> 2, name |-> "assignedLid", req |-> TRUE],
       [num |-> 3, name |-> "latestLid",   req |-> FALSE] >>

\* protobuf:"bytes,1,rep,name=pnToLidMappings"
PnToLidMappingsField == 1

\* A base-128 varint, least significant group first.
RECURSIVE Varint(_)
Varint(n) == IF n < 128 THEN <<n>> ELSE <<128 + (n % 128)>> \o Varint(n \div 128)

Tag(num, type) == Varint(num * 8 + type)

\* The varint that starts at b[i]: [ok, value, next].
RECURSIVE ReadVarintFrom(_, _, _, _)
ReadVarintFrom(b, i, mult, acc) ==
    IF i > Len(b) THEN [ok |-> FALSE, value |-> 0, next |-> i]
    ELSE IF b[i] < 128 THEN [ok |-> TRUE, value |-> acc + b[i] * mult, next |-> i + 1]
    ELSE ReadVarintFrom(b, i + 1, mult * 128, acc + (b[i] - 128) * mult)

ReadVarint(b, i) == ReadVarintFrom(b, i, 1, 0)

BadWire == [ok |-> FALSE, fields |-> <<>>]

\* The fields of the message b[i..]: [ok, fields], each field with its
\* number, wire type, varint value, length-delimited body and own bytes.
RECURSIVE ParseFields(_, _)
ParseFields(b, i) ==
    IF i > Len(b) THEN [ok |-> TRUE, fields |-> <<>>]
    ELSE
    LET tag == ReadVarint(b, i)
        num == tag.value \div 8
        type == tag.value % 8
        v == ReadVarint(b, tag.next)
        end == CASE type = VarintType -> v.next
                 [] type = BytesType  -> v.next + v.value
                 [] type = 1          -> tag.next + 8
                 [] type = 5          -> tag.next + 4
                 [] OTHER             -> 0
        rest == ParseFields(b, end)
    IN  IF ~tag.ok \/ num = 0 \/ end = 0 \/ end > Len(b) + 1 THEN BadWire
        ELSE IF type \in {VarintType, BytesType} /\ ~v.ok THEN BadWire
        ELSE IF ~rest.ok THEN BadWire
        ELSE [ok |-> TRUE,
              fields |-> <<[num |-> num, type |-> type,
                            val |-> IF type = VarintType THEN v.value ELSE 0,
                            body |-> IF type = BytesType THEN SubSeq(b, v.next, end - 1) ELSE <<>>,
                            raw |-> SubSeq(b, i, end - 1)]>> \o rest.fields]

\* The concatenation of the byte strings of a sequence.
RECURSIVE Concat(_)
Concat(parts) == IF parts = <<>> THEN <<>> ELSE Head(parts) \o Concat(Tail(parts))

\* Every required field of mapping m is set.
Initialized(m) ==
    \A k \in 1..Len(MappingFields) : MappingFields[k].req => m[MappingFields[k].name] # Nil

\* The bytes of one mapping: its set fields in declaration order, then the
\* unknown fields it was read with.
EncodeMapping(m) ==
    Concat([k \in 1..Len(MappingFields) |->
              IF m[MappingFields[k].name] = Nil THEN <<>>
              ELSE Tag(MappingFields[k].num, VarintType) \o Varint(m[MappingFields[k].name])])
        \o m.unknown

\* proto.Marshal of a payload: [ok, bytes].
Marshal(x) ==
    IF \E i \in 1..Len(x.mappings) : ~Initialized(x.mappings[i])
    THEN [ok |-> FALSE, bytes |-> <<>>]
    ELSE [ok |-> TRUE,
          bytes |-> Concat([i \in 1..Len(x.mappings) |->
                              Tag(PnToLidMappingsField, BytesType)
                                \o Varint(Len(EncodeMapping(x.mappings[i])))
                                \o EncodeMapping(x.mappings[i])])
                    \o x.unknown]

\* The value the last occurrence of field k leaves, Nil when none.
Scalar(fields, k) ==
    LET at == {i \in 1..Len(fields) : fields[i].num = MappingFields[k].num
                                       /\ fields[i].type = VarintType}
    IN  IF at = {} THEN Nil ELSE fields[CHOOSE i \in at : \A j \in at : j <= i].val

\* The bytes of the fields on which keep is FALSE, in order.
RECURSIVE UnknownBytes(_, _)
UnknownBytes(fields, known) ==
    IF fields = <<>> THEN <<>>
    ELSE (IF [num |-> Head(fields).num, type |-> Head(fields).type] \in known
          THEN <<>> ELSE Head(fields).raw)
         \o UnknownBytes(Tail(fields), known)

\* One mapping read from its bytes: [ok, m].
DecodeMapping(b) ==
    LET p == ParseFields(b, 1)
        m == [pn          |-> Scalar(p.fields, 1),
              assignedLid |-> Scalar(p.fields, 2),
              latestLid   |-> Scalar(p.fields, 3),
              unknown     |-> UnknownBytes(p.fields,
                                {[num |-> MappingFields[k].num, type |-> VarintType] :
                                    k \in 1..Len(MappingFields)})]
    IN  [ok |-> p.ok /\ Initialized(m), m |-> m]

\* proto.Unmarshal into a payload: [ok, x].
Unmarshal(b) ==
    LET p == ParseFields(b, 1)
        at == SelectSeq(p.fields, LAMBDA f : f.num = PnToLidMappingsField /\ f.type = BytesType)
        ms == [i \in 1..Len(at) |-> DecodeMapping(at[i].body)]
    IN  [ok |-> p.ok /\ \A i \in 1..Len(ms) : ms[i].ok,
         x |-> [mappings |-> [i \in 1..Len(ms) |-> ms[i].m],
                unknown |-> UnknownBytes(p.fields,
                              {[num |-> PnToLidMappingsField, type |-> BytesType]})]]

\* Number of mappings in a payload, and of fields in a mapping received
\* from elsewhere.
MaxMappings == 2
MaxItems == 3

\* Values of the uint64 fields: one and two bytes long as varints.
WireValues == {0, 300}

NoResult == [ok |-> FALSE]

Mappings ==
    [pn : WireValues \cup {Nil}, assignedLid : WireValues \cup {Nil},
     latestLid : WireValues \cup {Nil}, unknown : {<<>>}]

\* Fields a sender may put in a mapping: the three declared ones and one
\* the declaration does not know.
WireItems ==
    { [num |-> 1, val |-> 5], [num |-> 2, val |-> 300], [num |-> 3, val |-> 0],
      [num |-> 4, val |-> 7] }

ItemBytes(items) ==
    Concat([i \in 1..Len(items) |-> Tag(items[i].num, VarintType) \o Varint(items[i].val)])

\* A payload as a sender writes it: lead well-formed mappings, then one
\* mapping made of items, then (tail) a field the payload does not declare.
SentBytes(lead, items, tail) ==
    Concat([i \in 1..lead |-> <<10, 4, 8, 1, 16, 2>>])
        \o Tag(PnToLidMappingsField, BytesType) \o Varint(Len(ItemBytes(items)))
        \o ItemBytes(items)
        \o (IF tail THEN Tag(2, VarintType) \o Varint(9) ELSE <<>>)

WireInit ==
    /\ dialect = "postgres"
    /\ foreignKeys = TRUE
    /\ db = EmptyStore
    /\ InitRunner
    /\ call = NoCall
    /\ \/ \E n \in 0..MaxMappings : \E ms \in [1..n -> Mappings] :
            wire = [origin |-> "message", stage |-> "new",
                    x |-> [mappings |-> ms, unknown |-> <<>>],
                    items |-> <<>>, bytes |-> NoResult, read |-> NoResult,
                    again |-> NoResult]
       \/ \E n \in 0..MaxItems : \E items \in [1..n -> WireItems] :
            \E lead \in 0..1, tail \in BOOLEAN :
            wire = [origin |-> "bytes", stage |-> "encoded",
                    x |-> [mappings |-> <<>>, unknown |-> <<>>],
                    items |-> items,
                    bytes |-> [ok |-> TRUE, bytes |-> SentBytes(lead, items, tail)],
                    read |-> NoResult, again |-> NoResult]

\* proto.Marshal of the payload in memory: the one built, or the one read.
DoMarshal ==
    /\ \/ /\ wire.stage = "new"
          /\ wire' = [wire EXCEPT !.bytes = Marshal(wire.x), !.stage = "encoded"]
       \/ /\ wire.stage = "decoded" /\ wire.read.ok
          /\ wire' = [wire EXCEPT !.again = Marshal(wire.read.x), !.stage = "encoded again"]
    /\ UNCHANGED <<dialect, foreignKeys, store0, db, dbAtCall, call, runner>>

\* proto.Unmarshal of the bytes.
DoUnmarshal ==
    /\ wire.stage = "encoded" /\ wire.bytes.ok
    /\ wire' = [wire EXCEPT !.read = Unmarshal(wire.bytes.bytes), !.stage = "decoded"]
    /\ UNCHANGED <<dialect, foreignKeys, store0, db, dbAtCall, call, runner>>

WireNext == DoMarshal \/ DoUnmarshal

WireSpec == WireInit /\ [][WireNext]_vars

----------------------------------------------------------------------------
(* Rows offered to the column constraints of a store.                      *)

NumericColumns ==
    { [t |-> DeviceTable,          col |-> "registration_id"],
      [t |-> DeviceTable,          col |-> "signed_pre_key_id"],
      [t |-> "whatsmeow_pre_keys", col |-> "key_id"] }

\* -1, 0, 1, 2^24 - 1, 2^24, 2^24 + 1, 2^31, 2^32 - 1, 2^32, 2^32 + 1
NumericValues ==
    { Num(-1, Limb - 1), Num(0, 0), Num(0, 1),
      Num(255, Limb - 1), Num(256, 0), Num(256, 1), Num(32768, 0),
      Num(Limb - 1, Limb - 1), Num(Limb, 0), Num(Limb, 1) }

Bin(t, col, size, check) == [t |-> t, col |-> col, size |-> size, check |-> check]

\* The binary columns the mysql branch declares BINARY(size), each with the
\* length its CHECK (length(col) = n) demands in the other branch, 0 when
\* the other branch declares a plain bytea.
BinaryColumns ==
    { Bin(DeviceTable, "noise_key", 32, 32),
      Bin(DeviceTable, "identity_key", 32, 32),
      Bin(DeviceTable, "signed_pre_key", 32, 32),
      Bin(DeviceTable, "signed_pre_key_sig", 64, 64),
      Bin(DeviceTable, "adv_key", 32, 32),
      Bin(DeviceTable, "adv_details", 32, 32),
      Bin(DeviceTable, "adv_account_sig", 64, 64),
      Bin(DeviceTable, SigKeyCol, 32, 32),
      Bin(DeviceTable, "adv_device_sig", 64, 64),
      Bin("whatsmeow_identity_keys", "identity", 32, 32),
      Bin("whatsmeow_pre_keys", "key_data", 32, 32),
      Bin("whatsmeow_app_state_sync_keys", "key_id", 32, 0),
      Bin("whatsmeow_app_state_sync_keys", "fingerprint", 128, 128),
      Bin("whatsmeow_app_state_version", "hash", 128, 128),
      Bin("whatsmeow_app_state_mutation_macs", "index_mac", 32, 32),
      Bin("whatsmeow_app_state_mutation_macs", "value_mac", 32, 32),
      Bin("whatsmeow_message_secrets", "key_data", 32, 0),
      Bin("whatsmeow_privacy_tokens", "token", 32, 0) }

\* Lengths of the values offered to them.
BinaryLengths == {0, 31, 32, 33, 64, 128}

\* A value of n bytes is stored in column c: mysql takes what fits
\* BINARY(size) and pads it, the other dialects apply the CHECK if there is
\* one.
CheckBinary(d, c, n) ==
    IF d = "mysql" THEN n <= c.size ELSE c.check = 0 \/ n = c.check

\* A row waits to be inserted.
Pending(kind, c, x) ==
    [op |-> "pending", arg |-> [kind |-> kind, t |-> c.t, col |-> c.col, x |-> x],
     ok |-> TRUE, error |-> "", calls |-> 0,
     prev |-> [op |-> "none", arg |-> 0, ok |-> TRUE]]

ConstraintInit ==
    /\ dialect \in Dialects
    /\ foreignKeys = TRUE
    /\ \E v \in 0..NumUpgrades :
         db = InitStore(dialect, v, dialect = "sqlite" /\ v >= 2, TRUE,
                        [devs |-> {}, ids |-> {}])
    /\ InitRunner
    /\ wire = NoWire
    /\ \/ \E c \in NumericColumns, x \in NumericValues :
            call = Pending("number", c, x)
       \/ \E c \in BinaryColumns, n \in BinaryLengths :
            call = Pending("binary", c, n)

\* INSERT of a row whose numeric column holds the pending value, its other
\* columns being acceptable.
InsertNumber ==
    /\ call.op = "pending" /\ call.arg.kind = "number"
    /\ db' = db
    /\ Called("insert", call.arg,
              call.arg.t \in db.tables /\ CheckNumber(dialect, call.arg.col, call.arg.x),
              "")

\* INSERT of a row whose binary column holds a value of the pending length.
InsertBinary ==
    /\ call.op = "pending" /\ call.arg.kind = "binary"
    /\ db' = db
    /\ LET c == CHOOSE b \in BinaryColumns : b.t = call.arg.t /\ b.col = call.arg.col
       IN  Called("insert", call.arg,
                  c.t \in db.tables /\ CheckBinary(dialect, c, call.arg.x), "")

ConstraintNext == InsertNumber \/ InsertBinary

ConstraintSpec == ConstraintInit /\ [][ConstraintNext]_vars

----------------------------------------------------------------------------
(* Properties.                                                             *)

Returned == pc = "idle" /\ runs >= 1

\* The part of a jid before its first '.', the whole jid when it has none.
BeforeFirstDot(jid) ==
    LET n == CHOOSE k \in 0..Len(jid) :
                /\ \A i \in 1..k : jid[i] # Dot
                /\ k < Len(jid) => jid[k + 1] = Dot
    IN  SubSeq(jid, 1, n)

\* The identity rows of store s under the legacy lookup key of jid.
LegacyMatches(s, jid) ==
    {r \in s.idkeys : r.our_jid = jid /\ r.their_id = BeforeFirstDot(jid) \o ColonZero}

\* C1: whenever an invocation of Upgrade returns without error, getVersion
\* returns 7, the number of registered steps, whatever version in 0..7 the
\* store started at and whatever crashes and failures came before.
C1_UpgradeEndsAtLatest ==
    (Returned /\ result = "ok")
        => /\ getVersion(db, TRUE, TRUE).version = NumUpgrades
           /\ NumUpgrades = 7

\* C1 witness: Upgrade returns nil on a store that started below 7, after an
\* earlier invocation that crashed or failed once it had committed a step.
C1_Witness ==
    /\ Returned /\ result = "ok"
    /\ prevResult \in {"crash", "err"}
    /\ StoredVersion(store0) < StoredVersion(dbAtCall)
    /\ StoredVersion(dbAtCall) < NumUpgrades

\* C2: the versions committed form 1, 2, ..., k in order, none twice and none
\* skipped, and the first step any invocation runs is the one after the
\* version committed when it was called.
C2_StepsInOrder ==
    /\ applied = [i \in 1..Len(applied) |-> i]
    /\ firstStep # 0 => firstStep = StoredVersion(dbAtCall) + 1

\* C3: in every committed state the schema and rows are exactly those the
\* steps up to the stored version produce from the initial store.
C3_VersionMatchesSchema ==
    LET v == StoredVersion(db)
        r == ApplySteps(dialect, store0, StoredVersion(store0), v)
    IN  /\ v >= StoredVersion(store0)
        /\ r.ok
        /\ Content(db) = Content(r.s)

\* C4: when a step fails, Upgrade returns an error with the committed store
\* (version, schema and rows) as it was when the step's transaction began.
C4_FailedStepLeavesNothing ==
    (Returned /\ result = "err" /\ exit = "migrate") => db = dbAtBegin

\* C5: when Upgrade returns an error from inside the loop body, no
\* transaction it began is left open.
C5_NoOpenTransaction ==
    (Returned /\ result = "err" /\ exit \in {"migrate", "setVersion", "commit"})
        => openTx = 0

\* C6: on sqlite, an invocation that finds foreign keys disabled or cannot
\* read the setting returns an error without calling getVersion, without
\* beginning a transaction and with the store (version table included)
\* unchanged, at every version.
C6_ForeignKeysFirst ==
    (dialect = "sqlite" /\ runs >= 1 /\ (~foreignKeys \/ startFault = "pragma"))
        => /\ pc = "idle"
           /\ result = "err"
           /\ ~gv.called
           /\ firstStep = 0
           /\ ~srvTx
           /\ db = dbAtCall

\* C6 witness: the check fails on a sqlite store already at version 7.
C6_Witness ==
    /\ dialect = "sqlite"
    /\ Returned /\ result = "err" /\ exit = "foreignKeys"
    /\ StoredVersion(db) = NumUpgrades

C8_SingleVersionRow ==
    /\ Len(db.vrows) <= 1
    /\ (pc = "loop" /\ firstStep # 0) => db.vrows = <<version>>

\* C8 witness: setVersion has committed over an earlier version row.
C8_Witness ==
    /\ pc = "loop" /\ firstStep # 0
    /\ dbAtBegin.vrows # <<>>
    /\ db.vrows = <<version>>

\* C9: getVersion leaves the version table in place, returns the stored
\* integer, returns 0 only when there is no row, and returns an error when
\* the row could not be read.
C9_GetVersion ==
    gv.called =>
        /\ ~gv.err => db.vtable
        /\ (~gv.err /\ gv.version = 0) => dbAtCall.vrows = <<>>
        /\ (~gv.err /\ startFault # "scan" /\ dbAtCall.vrows # <<>>)
              => gv.version = dbAtCall.vrows[1]
        /\ startFault = "scan" => gv.err

\* C10: once step 2 has committed on a store at version 1, every device that
\* had no identity row under its legacy lookup key is gone, and every device
\* that had one is still there with that row's identity as its
\* adv_account_sig_key.
C10_BackFill ==
    (pc = "loop" /\ version = 2 /\ firstStep # 0) =>
        \A dv \in dbAtBegin.devices :
            IF LegacyMatches(dbAtBegin, dv.jid) = {}
            THEN ~\E x \in db.devices : x.jid = dv.jid
            ELSE \E x \in db.devices :
                    /\ x.jid = dv.jid
                    /\ \A r \in LegacyMatches(dbAtBegin, dv.jid) : x.key = r.identity

\* C10 witness: step 2 has committed, deleting one device and keeping one
\* with its identity bytes.
C10_Witness ==
    /\ pc = "loop" /\ version = 2 /\ firstStep # 0
    /\ \E dv \in dbAtBegin.devices :
          /\ LegacyMatches(dbAtBegin, dv.jid) = {}
          /\ ~\E x \in db.devices : x.jid = dv.jid
    /\ \E dv \in dbAtBegin.devices, r \in dbAtBegin.idkeys :
          /\ r \in LegacyMatches(dbAtBegin, dv.jid)
          /\ [jid |-> dv.jid, key |-> r.identity] \in db.devices

CalledTwice(n) ==
    /\ call.op = "upgrade" /\ call.arg = n
    /\ call.prev.op = "upgrade" /\ call.prev.arg = n

\* C12 as claimed: for steps 6 and 7, running the step twice against the same
\* store never raises a duplicate-column error: the second run finds the
\* column present and succeeds without altering the table.
C12_AddColumnTwice ==
    \A n \in {6, 7} :
        CalledTwice(n) =>
            /\ call.error # "duplicate column"
            /\ call.prev.ok => (call.ok /\ db = dbAtCall)

\* C12 amended: for step 6, no run raises a duplicate-column error, and a
\* run after one that succeeded succeeds without altering the table; step 7
\* has no probe, and its run after one that succeeded fails with a
\* duplicate-column error, altering nothing.
C12_ProbedAddColumnTwice ==
    /\ (call.op = "upgrade" /\ call.arg = 6) => call.error # "duplicate column"
    /\ (CalledTwice(6) /\ call.prev.ok) => (call.ok /\ db = dbAtCall)
    /\ (CalledTwice(7) /\ call.prev.ok) =>
          (~call.ok /\ call.error = "duplicate column" /\ db = dbAtCall)

\* C12 witness: step 6 has run twice on a store without facebook_uuid: the
\* first run added the column, the second returned nil.
C12_Witness ==
    /\ CalledTwice(6) /\ call.prev.ok /\ call.ok
    /\ ~store0.fbuuid /\ db.fbuuid

\* The twelve data tables of the latest schema.
AllTables ==
    {DeviceTable} \cup {FirstGenTables[i].t : i \in 1..Len(FirstGenTables)}
        \cup {"whatsmeow_message_secrets", "whatsmeow_privacy_tokens"}

\* An invocation on the empty store has returned, nothing having failed
\* under it.
FreshRunReturned ==
    /\ Returned /\ runs = 1 /\ ~faulted
    /\ foreignKeys
    /\ store0 \in {EmptyStore, CreateVersionTable(EmptyStore)}

\* C13: starting from an empty store at version 0, on each of the three
\* dialects, Upgrade succeeds and ends with version 7, exactly the twelve
\* data tables, and whatsmeow_device holding adv_account_sig_key (NOT NULL),
\* facebook_uuid and lid.
C13_FreshStore ==
    FreshRunReturned =>
        /\ result = "ok"
        /\ StoredVersion(db) = 7
        /\ db.tables = AllTables /\ Cardinality(AllTables) = 12
        /\ db.sigkey = "notnull" /\ db.fbuuid /\ db.lid

\* C13 holds where the catalog probe works.
C13_FreshStoreWithCatalog == ProbeOk(dialect) => C13_FreshStore

\* The ten tables whose rows the claim says go with their device.
CascadingTables ==
    { "whatsmeow_identity_keys", "whatsmeow_pre_keys", "whatsmeow_sessions",
      "whatsmeow_sender_keys", "whatsmeow_app_state_sync_keys",
      "whatsmeow_app_state_version", "whatsmeow_app_state_mutation_macs",
      "whatsmeow_contacts", "whatsmeow_chat_settings", "whatsmeow_message_secrets" }

\* The rows of store s, whatsmeow_identity_keys included, as [t, owner].
RowsOf(s) ==
    s.owned \cup {[t |-> "whatsmeow_identity_keys", owner |-> r.our_jid] : r \in s.idkeys}

DeletedAtLatest ==
    /\ call.op = "deleteDevice" /\ call.ok
    /\ StoredVersion(dbAtCall) = NumUpgrades

\* C14: at version 7, deleting a device deletes every row it owns in the ten
\* cascading tables, and leaves every privacy token (those of the deleted
\* device included) and every row of the other devices as they were.
C14_DeleteCascades ==
    DeletedAtLatest =>
        /\ ~\E dv \in db.devices : dv.jid = call.arg
        /\ \A t \in CascadingTables : [t |-> t, owner |-> call.arg] \notin RowsOf(db)
        /\ {r \in RowsOf(db) : r.t = "whatsmeow_privacy_tokens"}
              = {r \in RowsOf(dbAtCall) : r.t = "whatsmeow_privacy_tokens"}
        /\ {r \in RowsOf(db) : r.owner # call.arg}
              = {r \in RowsOf(dbAtCall) : r.owner # call.arg}

\* C14 witness: the deleted device owned a row in each of the ten tables and
\* a privacy token, which is still there, and another device keeps its rows.
C14_Witness ==
    /\ DeletedAtLatest
    /\ \A t \in CascadingTables : [t |-> t, owner |-> call.arg] \in RowsOf(dbAtCall)
    /\ [t |-> "whatsmeow_privacy_tokens", owner |-> call.arg] \in RowsOf(db)
    /\ \E r \in RowsOf(db) : r.owner # call.arg /\ r.t \in CascadingTables

\* 2^n for n < 32 + 16, Limb being 2^16.
Pow2(n) == IF n < 16 THEN Num(0, 2 ^ n) ELSE Num(2 ^ (n - 16), 0)

\* x - 1
Pred(x) == IF x.lo = 0 THEN Num(x.hi - 1, Limb - 1) ELSE Num(x.hi, x.lo - 1)

\* The width the claim gives each column: 32 bits for registration_id, 24
\* for the key ids.
Bits(col) == IF col = "registration_id" THEN 32 ELSE 24

InsertedNumber ==
    /\ call.op = "insert" /\ call.arg.kind = "number"
    /\ call.arg.t \in db.tables

\* C15: on the three dialects alike, the schema of step 1 accepts a
\* registration_id x exactly when 0 <= x < 2^32 and a key_id or
\* signed_pre_key_id exactly when 0 <= x < 2^24; -1 and the upper limit
\* itself are rejected, 0 and the limit less one accepted.
C15_NumericBounds ==
    InsertedNumber =>
        LET x == call.arg.x
            top == Pow2(Bits(call.arg.col))
        IN  /\ call.ok <=> (~Less(x, Zero) /\ Less(x, top))
            /\ x \in {Zero, Pred(top)} => call.ok
            /\ x \in {Pred(Zero), top} => ~call.ok

\* C15 witness: 2^32 - 1 is accepted as a registration_id on mysql.
C15_Witness ==
    /\ InsertedNumber /\ dialect = "mysql"
    /\ call.arg.col = "registration_id"
    /\ call.arg.x = Pred(Pow2(32))
    /\ call.ok

\* The fixed-size binary fields and their sizes in bytes.
FixedSizeFields ==
    [t : {DeviceTable},
     col : {"noise_key", "identity_key", "signed_pre_key", "adv_key", "adv_details",
            "adv_account_sig_key"},
     bytes : {32}]
    \cup [t : {DeviceTable},
          col : {"signed_pre_key_sig", "adv_account_sig", "adv_device_sig"},
          bytes : {64}]
    \cup { [t |-> "whatsmeow_identity_keys",           col |-> "identity",    bytes |-> 32],
           [t |-> "whatsmeow_pre_keys",                col |-> "key_data",    bytes |-> 32],
           [t |-> "whatsmeow_app_state_sync_keys",     col |-> "key_id",      bytes |-> 32],
           [t |-> "whatsmeow_app_state_sync_keys",     col |-> "fingerprint", bytes |-> 128],
           [t |-> "whatsmeow_app_state_version",       col |-> "hash",        bytes |-> 128],
           [t |-> "whatsmeow_app_state_mutation_macs", col |-> "index_mac",   bytes |-> 32],
           [t |-> "whatsmeow_app_state_mutation_macs", col |-> "value_mac",   bytes |-> 32],
           [t |-> "whatsmeow_message_secrets",         col |-> "key_data",    bytes |-> 32],
           [t |-> "whatsmeow_privacy_tokens",          col |-> "token",       bytes |-> 32] }

\* The fields whose declaration outside mysql carries no length check.
UncheckedFields ==
    { [t |-> "whatsmeow_app_state_sync_keys", col |-> "key_id"],
      [t |-> "whatsmeow_message_secrets",     col |-> "key_data"],
      [t |-> "whatsmeow_privacy_tokens",      col |-> "token"] }

InsertedBinary ==
    /\ call.op = "insert" /\ call.arg.kind = "binary"
    /\ dialect \in {"postgres", "sqlite"}
    /\ StoredVersion(db) = NumUpgrades

\* The field of the pending row takes a value exactly when it has the
\* field's size.
LengthChecked ==
    \A f \in FixedSizeFields :
        (f.t = call.arg.t /\ f.col = call.arg.col) => (call.ok <=> call.arg.x = f.bytes)

\* C16: on postgres and sqlite, at version 7, every fixed-size binary field
\* is length-checked: a value of another length is rejected.
C16_LengthChecked == InsertedBinary => LengthChecked

\* C16 holds of every field but the three declared without a check.
C16_LengthCheckedWhereDeclared ==
    (InsertedBinary /\ [t |-> call.arg.t, col |-> call.arg.col] \notin UncheckedFields)
        => LengthChecked

\* The error e names version n in one of its messages.
NamesVersion(e, n) == \E i \in 1..Len(e.context) : e.context[i].version = n

\* C17: when a step fails during Upgrade, the returned error carries the
\* underlying cause and identifies which version's step failed.
C17_ErrorNamesVersion ==
    (Returned /\ result = "err" /\ exit = "migrate") =>
        /\ err.cause # ""
        /\ NamesVersion(err, failedStep)

\* C17, the part that holds: the error of a failed step carries the
\* underlying cause.
C17_ErrorCarriesCause ==
    (Returned /\ result = "err" /\ exit = "migrate") => err.cause # ""

\* Every mapping of the payload built in memory has pn and assignedLid set.
BuiltWhole ==
    /\ wire.origin = "message"
    /\ \A i \in 1..Len(wire.x.mappings) :
          wire.x.mappings[i].pn # Nil /\ wire.x.mappings[i].assignedLid # Nil

\* C18: a payload whose mappings all have pn and assignedLid set, latestLid
\* set or absent, encodes; decoding the bytes yields the same mappings in
\* the same order with the same values, an absent latestLid still absent;
\* and encoding what was decoded yields the same bytes.
C18_RoundTrip ==
    BuiltWhole =>
        /\ wire.stage # "new" => wire.bytes.ok
        /\ wire.stage \in {"decoded", "encoded again"} =>
              /\ wire.read.ok
              /\ wire.read.x = wire.x
              /\ \A i \in 1..Len(wire.x.mappings) :
                    wire.x.mappings[i].latestLid = Nil
                        <=> wire.read.x.mappings[i].latestLid = Nil
        /\ wire.stage = "encoded again" =>
              /\ wire.again.ok
              /\ wire.again.bytes = wire.bytes.bytes

\* C18 witness: a payload of two different mappings, one without latestLid
\* and one with latestLid 0, has gone through encode, decode and encode.
C18_Witness ==
    /\ BuiltWhole /\ wire.stage = "encoded again"
    /\ Len(wire.x.mappings) = 2
    /\ wire.x.mappings[1].latestLid = Nil /\ wire.x.mappings[2].latestLid = 0
    /\ wire.x.mappings[1].pn # wire.x.mappings[2].pn
    /\ wire.again.bytes = wire.bytes.bytes

\* The mapping received carries field k.
Carries(k) == \E i \in 1..Len(wire.items) : wire.items[i].num = k

Received == wire.origin = "bytes" /\ wire.stage # "encoded"

\* C19: decoding fails when a mapping lacks field 1 (pn) or field 2
\* (assignedLid); a mapping that has both is accepted, with or without
\* field 3 and whatever unknown fields come with it.
C19_RequiredFields ==
    Received =>
        /\ (~Carries(1) \/ ~Carries(2)) => ~wire.read.ok
        /\ (Carries(1) /\ Carries(2)) => wire.read.ok

\* C19 witness: a mapping with pn, assignedLid and an unknown field, without
\* latestLid, has been decoded, the unknown field kept.
C19_Witness ==
    /\ Received /\ wire.read.ok
    /\ Carries(1) /\ Carries(2) /\ ~Carries(3) /\ Carries(4)
    /\ wire.read.x.mappings[Len(wire.read.x.mappings)].latestLid = Nil
    /\ wire.read.x.mappings[Len(wire.read.x.mappings)].unknown # <<>>
    /\ wire.read.x.unknown # <<>>

\* jid without its suffix '.0', jid itself when it does not end in '.0'.
StripSuffix(jid) ==
    IF Len(jid) >= 2 /\ jid[Len(jid) - 1] = Dot /\ jid[Len(jid)] = "0"
    THEN SubSeq(jid, 1, Len(jid) - 2)
    ELSE jid

\* Step 5 has run on the store.
Stripped == call.op = "upgrade" /\ call.arg = 5 /\ call.ok

\* C20: step 5 rewrites each device jid to the same jid with only the
\* suffix '.0' removed: a jid without the suffix is unchanged and no other
\* occurrence of '.0' inside a jid is altered.
C20_OnlySuffixStripped ==
    Stripped =>
        /\ {dv.jid : dv \in db.devices} = {StripSuffix(dv.jid) : dv \in dbAtCall.devices}
        /\ \A dv \in dbAtCall.devices :
              [jid |-> StripSuffix(dv.jid), key |-> dv.key] \in db.devices

\* C20 holds of the jids in which '.0' occurs as the suffix only.
C20_OnlySuffixStrippedIfSingle ==
    (\A dv \in dbAtCall.devices : REPLACE(dv.jid) = StripSuffix(dv.jid))
        => C20_OnlySuffixStripped

\* The runner is about to send the ALTER TABLE of step 7.
AtStep7 == pc = "migrate" /\ version + 1 = NumUpgrades /\ NumUpgrades = 7

\* C21: across every sequence of Upgrade invocations, failures and crashes on
\* one store, on each dialect, the ALTER TABLE of step 7 is never sent to a
\* whatsmeow_device that already has the lid column, and step 7 never
\* returns a duplicate-column error.
C21_Step7NeverDuplicate ==
    /\ AtStep7 => ~ColumnPresent(Working, LidCol)
    /\ (Returned /\ result = "err" /\ failedStep = 7) => err.cause # "duplicate column"

\* C21 holds on the dialects whose ALTER TABLE is undone by a rollback.
C21_Step7NeverDuplicateTransactional ==
    dialect # "mysql" => C21_Step7NeverDuplicate

\* The rows of the data tables of store s.
RowContents(s) == <<s.devices, s.idkeys, s.owned>>

\* The steps that create tables or add columns and nothing else.
ShapeSteps == {1, 3, 4, 6, 7}

\* A step's transaction has begun and the runner is inside it.
InStep == pc \in {"migrate", "setVersion", "commit"}

\* The step just committed in this invocation is step n.
Committed(n) == pc = "loop" /\ firstStep # 0 /\ version = n

\* C22: while steps 1, 3, 4, 6 and 7 run, and once they have committed, every
\* row of every data table is as it was when the step began; rows differ
\* from those the step began with only under step 2 and step 5.
C22_OnlySteps2And5ChangeRows ==
    /\ (InStep /\ version + 1 \in ShapeSteps) =>
          /\ RowContents(Working) = RowContents(dbAtBegin)
          /\ RowContents(db) = RowContents(dbAtBegin)
    /\ (\E n \in ShapeSteps : Committed(n)) => RowContents(db) = RowContents(dbAtBegin)
    /\ ((InStep \/ \E n \in 1..NumUpgrades : Committed(n))
            /\ RowContents(db) # RowContents(dbAtBegin))
          => (IF InStep THEN version + 1 ELSE version) \in {2, 5}

\* C22 witness: step 7 has committed, adding lid to a store whose tables
\* all hold rows, in an invocation that began below step 5 and so rewrote
\* jids on its way.
C22_Witness ==
    /\ Committed(7)
    /\ db.lid /\ ~dbAtBegin.lid
    /\ db.devices # {} /\ db.idkeys # {}
    /\ \A t \in DeviceKeyedTables \cup {PrivacyTable} : \E r \in db.owned : r.t = t
    /\ RowContents(db) = RowContents(dbAtBegin)
    /\ RowContents(db) # RowContents(dbAtCall)

\* Iterations of the loop of Upgrade the current invocation has entered.
StepsEntered ==
    IF firstStep = 0 THEN 0
    ELSE IF InStep THEN version + 2 - firstStep
    ELSE version + 1 - firstStep

\* C23, the bound: an invocation called on a store at committed version v
\* enters at most 7 - v iterations of the loop.
C23_AtMostRemainingSteps ==
    pc # "idle" => StepsEntered <= NumUpgrades - StoredVersion(dbAtCall)

\* The bound holds of every invocation whose getVersion read the version row.
C23_AtMostRemainingStepsIfRead ==
    startFault # "scan" => C23_AtMostRemainingSteps

\* The runner, once called, takes its next step; whether Upgrade is called
\* again, and whether the process dies, is up to the environment.
LiveSpec == Spec /\ WF_vars(Finish \/ Begin \/ ExecStmt \/ SetVersion \/ Commit)

\* C23, termination: every invocation of Upgrade returns.
C23_UpgradeReturns == (pc # "idle") ~> (pc = "idle")

\* C23, the end: an invocation that met no failure and whose steps all
\* succeeded returns with the store at version 7.
C23_ReachesLatest ==
    (Returned /\ result = "ok") => StoredVersion(db) = NumUpgrades

\* The jids of the devices of store s.
DeviceJids(s) == {dv.jid : dv \in s.devices}

\* Every row of store s in a table that declares a foreign key has its
\* parent row: a device, or for whatsmeow_app_state_mutation_macs the
\* whatsmeow_app_state_version row of the same jid.
ForeignKeysHold(s) ==
    /\ \A r \in s.idkeys : r.our_jid \in DeviceJids(s)
    /\ \A r \in s.owned :
          LET parent == References(r.t)
          IN  CASE parent = ""          -> TRUE
                [] parent = DeviceTable -> r.owner \in DeviceJids(s)
                [] OTHER                -> [t |-> parent, owner |-> r.owner] \in s.owned

\* The rows of store s that reference a device, directly or through
\* whatsmeow_app_state_version.
ChildRows(s) == {r \in RowsOf(s) : r.t \in CascadingTables}

\* The step that failed is step 5, on two jids that would become equal.
Step5Collided ==
    Returned /\ result = "err" /\ failedStep = 5 /\ err.cause = "duplicate key"

\* C24: in every committed state at version 1 or above, and in what an
\* open transaction sees, every row of a table with a foreign key references
\* an existing parent row; step 2 leaves no row of a device it deleted; step 5
\* commits only when no two jids become equal, and then every child row
\* carries the rewritten jid of its device; when two would become equal it
\* fails with the store as it was.
C24_ForeignKeysHold ==
    /\ StoredVersion(db) >= 1 => (ForeignKeysHold(db) /\ ForeignKeysHold(Working))
    /\ Committed(2) =>
          \A r \in ChildRows(db) : r.owner \in DeviceJids(db)
    /\ Committed(5) =>
          /\ \A x, y \in DeviceJids(dbAtBegin) : REPLACE(x) = REPLACE(y) => x = y
          /\ ChildRows(db) = {[r EXCEPT !.owner = REPLACE(@)] : r \in ChildRows(dbAtBegin)}
          /\ DeviceJids(db) = {REPLACE(j) : j \in DeviceJids(dbAtBegin)}
    /\ Step5Collided => db = dbAtBegin

\* C24 witness: in one invocation step 2 has deleted a device that owned rows
\* in the child tables and step 5 has rewritten the jid of another, whose
\* child rows now carry the new jid.
C24_Witness ==
    /\ Committed(5)
    /\ \E r \in ChildRows(dbAtCall) : r.owner = JidB /\ r.owner \notin DeviceJids(db)
    /\ \A t \in CascadingTables \ {"whatsmeow_message_secrets"} :
          /\ [t |-> t, owner |-> JidA] \in ChildRows(dbAtCall)
          /\ [t |-> t, owner |-> REPLACE(JidA)] \in ChildRows(db)
    /\ JidA \notin DeviceJids(db) /\ REPLACE(JidA) # JidA

\* Step 5 has met two jids that would become equal, each with child rows.
C24_CollisionWitness ==
    /\ Step5Collided
    /\ {JidA, JidF} \subseteq DeviceJids(db)
    /\ \E r \in ChildRows(db) : r.owner = JidA

\* Both invocations have returned.
BothReturned == \A p \in Upgraders : upgraders[p].pc = "idle" /\ upgraders[p].result # "none"

\* No invocation was called while another was running.
OneAtATime == \A p \in Upgraders : ~upgraders[p].overlap

\* C25: when two invocations of Upgrade are interleaved on one store, no
\* step's version is committed twice, and once both have returned the
\* version table holds exactly one row, whose value is the number of steps
\* committed on the store.
C25_InterleavedUpgrades ==
    /\ \A i, j \in 1..Len(applied) : applied[i] = applied[j] => i = j
    /\ (BothReturned /\ applied # <<>>) => db.vrows = <<Len(applied)>>

\* C25 holds of two invocations of which one is called after the other has
\* returned.
C25_OneAfterTheOther == OneAtATime => C25_InterleavedUpgrades

====
